---- MODULE Spec2Model ----
(***************************************************************************)
(* A model of the AlfiePolicyAI schedule runner                            *)
(* (attached_assets/schedule_run_1764025849696.py) and of the top-3        *)
(* ranking (attached_assets/top_3_quotes_1764752188280.py).                *)
(*                                                                         *)
(* Python strings are sequences of one-character strings, so that          *)
(* lower(), strip(), endswith(), replace() and the regular expressions     *)
(* are computed character by character.  An Optional value is the empty    *)
(* sequence (None) or a one-element sequence.  The characters of a string  *)
(* are those of Latin-1 (U+0000 to U+00FF): lower(), strip() and the       *)
(* digits are Python's on that range.                                      *)
(***************************************************************************)
EXTENDS Integers, Sequences, FiniteSets, TLC

VARIABLES
  \* normalize_feature_name, applied once and then to its own result
  feature, f_once, f_twice, n_pc,
  \* call_llm_to_extract_preferences
  user_preferences, extracted, x_pc,
  \* matches_requirements / find_best_match
  m_quotes, m_budget, m_required, m_index, m_result, m_best, m_pc,
  \* run_schedule
  request, prefs, start_date, i, run_date, quotes, outcomes, fetches,
  fetch_status, raised, pc,
  \* get_top_3_quotes
  data, output, t_pc

nvars == <<feature, f_once, f_twice, n_pc>>
xvars == <<user_preferences, extracted, x_pc>>
mvars == <<m_quotes, m_budget, m_required, m_index, m_result, m_best, m_pc>>
rvars == <<request, prefs, start_date, i, run_date, quotes, outcomes, fetches,
           fetch_status, raised, pc>>
tvars == <<data, output, t_pc>>
vars == <<nvars, xvars, mvars, rvars, tvars>>

----------------------------------------------------------------------------
(* Bounds of the model *)

\* longest preference text, in tokens of TextTokens
MaxTokens == 3
\* most '_included' suffixes (or paddings) on a raw feature name
MaxSuffixes == 3
\* longest quote list handed to find_best_match
MaxQuotes == 3
\* largest iteration count of a request
MaxIterations == 3
\* longest list of raw records in one API response
MaxRaw == 2
\* longest batch handed to get_top_3_quotes
MaxRecords == 4

----------------------------------------------------------------------------
(* Python values *)

None == <<>>
Some(x) == <<x>>

\* range(a, b) as a set
Range(a, b) == {k \in Int : a <= k /\ k < b}

\* all sequences over S of length at most n
SeqUpTo(S, n) == UNION {[1..k -> S] : k \in 0..n}

RECURSIVE Flatten(_)
\* "".join(parts)
Flatten(parts) ==
  IF parts = <<>> THEN <<>> ELSE Head(parts) \o Flatten(Tail(parts))

\* the cased capitals of Latin-1 and, place by place, what lower() makes of
\* them
UpperCase ==
  <<"A", "B", "C", "D", "E", "F", "G", "H", "I", "J", "K", "L", "M",
    "N", "O", "P", "Q", "R", "S", "T", "U", "V", "W", "X", "Y", "Z",
    "À", "Á", "Â", "Ã", "Ä", "Å", "Æ", "Ç", "È", "É", "Ê", "Ë", "Ì",
    "Í", "Î", "Ï", "Ð", "Ñ", "Ò", "Ó", "Ô", "Õ", "Ö", "Ø", "Ù", "Ú",
    "Û", "Ü", "Ý", "Þ">>
LowerCase ==
  <<"a", "b", "c", "d", "e", "f", "g", "h", "i", "j", "k", "l", "m",
    "n", "o", "p", "q", "r", "s", "t", "u", "v", "w", "x", "y", "z",
    "à", "á", "â", "ã", "ä", "å", "æ", "ç", "è", "é", "ê", "ë", "ì",
    "í", "î", "ï", "ð", "ñ", "ò", "ó", "ô", "õ", "ö", "ø", "ù", "ú",
    "û", "ü", "ý", "þ">>
Digits == <<"0", "1", "2", "3", "4", "5", "6", "7", "8", "9">>
\* the characters str.strip() removes: U+0009 to U+000D, U+001C to U+001F,
\* U+0020, U+0085 and U+00A0
Whitespace ==
  {"\t", "\n", "", "\f", "\r", "", "", "", "", " ",
   "", " "}

IsDigit(c) == \E k \in 1..10 : Digits[k] = c
DigitValue(c) == (CHOOSE k \in 1..10 : Digits[k] = c) - 1
IsUpper(c) == \E k \in 1..Len(UpperCase) : UpperCase[k] = c

LowerChar(c) ==
  IF IsUpper(c) THEN LowerCase[CHOOSE k \in 1..Len(UpperCase) : UpperCase[k] = c]
  ELSE c

\* str.lower()
Lower(s) == [k \in 1..Len(s) |-> LowerChar(s[k])]

\* str.strip(): leading and trailing whitespace removed
Strip(s) ==
  LET keep == {k \in 1..Len(s) : s[k] \notin Whitespace}
  IN IF keep = {} THEN <<>>
     ELSE LET lo == CHOOSE k \in keep : \A j \in keep : k <= j
              hi == CHOOSE k \in keep : \A j \in keep : j <= k
          IN SubSeq(s, lo, hi)

\* str.endswith(suffix)
EndsWith(s, suffix) ==
  /\ Len(suffix) <= Len(s)
  /\ SubSeq(s, Len(s) - Len(suffix) + 1, Len(s)) = suffix

\* str.replace(c, ""): every occurrence of the character c removed
RemoveChar(s, c) == SelectSeq(s, LAMBDA ch : ch # c)

\* s[p : p + len(lit)] == lit, p counted from 1
MatchesAt(s, lit, p) ==
  /\ p >= 1
  /\ p + Len(lit) - 1 <= Len(s)
  /\ SubSeq(s, p, p + Len(lit) - 1) = lit

\* re.search of a pattern that matches exactly the literal lit
SearchLiteral(lit, s) == \E p \in 1..(Len(s) + 1) : MatchesAt(s, lit, p)

\* the end of the maximal run of digits that starts at p (p - 1 when s[p] is
\* no digit): the greedy [0-9]+ / [0-9]*
RECURSIVE DigitRunEnd(_, _)
DigitRunEnd(s, p) ==
  IF p <= Len(s) /\ IsDigit(s[p]) THEN DigitRunEnd(s, p + 1) ELSE p - 1

\* the value of a string of decimal digits
RECURSIVE ToNat(_)
ToNat(s) ==
  IF s = <<>> THEN 0
  ELSE 10 * ToNat(SubSeq(s, 1, Len(s) - 1)) + DigitValue(s[Len(s)])

AllDigits(s) == \A k \in 1..Len(s) : IsDigit(s[k])

----------------------------------------------------------------------------
(* normalize_feature_name *)

INCLUDED == <<"_", "i", "n", "c", "l", "u", "d", "e", "d">>

normalize_feature_name(f) ==
  LET g == Strip(Lower(f))
  IN IF EndsWith(g, INCLUDED) THEN SubSeq(g, 1, Len(g) - Len(INCLUDED)) ELSE g

\* the inputs: an optional leading blank, a name, up to MaxSuffixes suffixes
\* or blanks, an optional trailing blank
NormCores == {<<>>, <<"l", "e", "g", "a", "l", "_", "c", "o", "v", "e", "r">>, <<"W", "i", "n", "d", "s", "c", "r", "e", "e", "n", "_", "C", "o", "v", "e", "r">>}
NormSuffixParts == {INCLUDED, <<"_", "I", "N", "C", "L", "U", "D", "E", "D">>, <<" ">>}
NormInputs ==
  {pre \o core \o Flatten(sufs) \o post :
     pre \in {<<>>, <<" ">>}, core \in NormCores,
     sufs \in SeqUpTo(NormSuffixParts, MaxSuffixes), post \in {<<>>, <<"\t">>}}

NInit == feature \in NormInputs /\ f_once = None /\ f_twice = None /\ n_pc = "start"
NIdle == feature = <<>> /\ f_once = None /\ f_twice = None /\ n_pc = "idle"

\* normalize_feature_name(feature)
NormalizeOnce ==
  /\ n_pc = "start"
  /\ f_once' = Some(normalize_feature_name(feature))
  /\ n_pc' = "once"
  /\ UNCHANGED <<feature, f_twice, xvars, mvars, rvars, tvars>>

\* normalize_feature_name applied to the result of the first call
NormalizeTwice ==
  /\ n_pc = "once"
  /\ f_twice' = Some(normalize_feature_name(f_once[1]))
  /\ n_pc' = "twice"
  /\ UNCHANGED <<feature, f_once, xvars, mvars, rvars, tvars>>

----------------------------------------------------------------------------
(* ALIAS_MAP and call_llm_to_extract_preferences *)

windshield_cover == <<"w", "i", "n", "d", "s", "h", "i", "e", "l", "d", "_", "c", "o", "v", "e", "r">>
legal_cover == <<"l", "e", "g", "a", "l", "_", "c", "o", "v", "e", "r">>
courtesy_car == <<"c", "o", "u", "r", "t", "e", "s", "y", "_", "c", "a", "r">>
breakdown_cover == <<"b", "r", "e", "a", "k", "d", "o", "w", "n", "_", "c", "o", "v", "e", "r">>
european_cover == <<"e", "u", "r", "o", "p", "e", "a", "n", "_", "c", "o", "v", "e", "r">>

\* the dict in insertion order: <<alias, canonical identifier>>
ALIAS_MAP ==
  << <<<<"w", "i", "n", "d", "s", "h", "i", "e", "l", "d">>,
       windshield_cover>>,
     <<<<"w", "i", "n", "d", "s", "c", "r", "e", "e", "n">>,
       windshield_cover>>,
     <<<<"w", "i", "n", "d", "s", "h", "i", "e", "l", "d", " ", "c", "o", "v", "e", "r">>,
       windshield_cover>>,
     <<<<"w", "i", "n", "d", "s", "c", "r", "e", "e", "n", " ", "c", "o", "v", "e", "r">>,
       windshield_cover>>,
     <<<<"w", "i", "n", "d", "s", "h", "i", "e", "l", "d", "_", "c", "o", "v", "e", "r">>,
       windshield_cover>>,
     <<<<"w", "i", "n", "d", "s", "c", "r", "e", "e", "n", "_", "c", "o", "v", "e", "r">>,
       windshield_cover>>,
     <<<<"l", "e", "g", "a", "l">>,
       legal_cover>>,
     <<<<"l", "e", "g", "a", "l", " ", "c", "o", "v", "e", "r">>,
       legal_cover>>,
     <<<<"l", "e", "g", "u", "l", " ", "c", "o", "v", "e", "r">>,
       legal_cover>>,
     <<<<"c", "o", "u", "r", "t", "e", "s", "y", " ", "c", "a", "r">>,
       courtesy_car>>,
     <<<<"c", "o", "u", "r", "t", "e", "s", "y", "_", "c", "a", "r">>,
       courtesy_car>>,
     <<<<"b", "r", "e", "a", "k", "d", "o", "w", "n">>,
       breakdown_cover>>,
     <<<<"b", "r", "e", "a", "k", "d", "o", "w", "n", " ", "c", "o", "v", "e", "r">>,
       breakdown_cover>>,
     <<<<"b", "r", "e", "a", "k", "d", "o", "w", "n", "_", "c", "o", "v", "e", "r">>,
       breakdown_cover>>,
     <<<<"e", "u", "r", "o", "p", "e", "a", "n">>,
       european_cover>>,
     <<<<"e", "u", "r", "o", "p", "e", "a", "n", " ", "c", "o", "v", "e", "r">>,
       european_cover>>,
     <<<<"e", "u", "r", "o", "p", "e", "a", "n", "_", "c", "o", "v", "e", "r">>,
       european_cover>>,
     <<<<"e", "u", "r", "o", "p", "e">>,
       european_cover>> >>

\* the canonical feature identifiers: the values of ALIAS_MAP
CanonicalFeatures == {ALIAS_MAP[k][2] : k \in 1..Len(ALIAS_MAP)}

\* float(s) for the strings the number pattern can capture: a run of digits
\* converts; a capture with a backslash in it raises ValueError (None here)
float_(s) == IF s # <<>> /\ AllDigits(s) THEN Some(ToNat(s)) ELSE None

\* re.search(r"([0-9]+(?:\\.[0-9]+)?)", s).group(1), or None.  The pattern is a
\* raw string, so \\ is a literal backslash and the dot after it matches any
\* character but a newline: digits, then optionally a backslash, one
\* character and digits.
number_match(s) ==
  LET starts == {p \in 1..Len(s) : IsDigit(s[p])}
  IN IF starts = {} THEN None
     ELSE LET p == CHOOSE q \in starts : \A r \in starts : q <= r
              e == DigitRunEnd(s, p)
              tail == /\ e + 3 <= Len(s)
                      /\ s[e + 1] = "\\"
                      /\ s[e + 2] # "\n"
                      /\ IsDigit(s[e + 3])
          IN Some(SubSeq(s, p, IF tail THEN DigitRunEnd(s, e + 3) ELSE e))

\* "\\b" + re.escape(alias) + "\\b": raw strings again, so the pattern matches
\* a literal backslash, the letter b, the alias, a backslash and the letter b
alias_pattern(alias) == <<"\\", "b">> \o alias \o <<"\\", "b">>

\* the for loop over ALIAS_MAP.items(), from entry k on
RECURSIVE scan_aliases(_, _, _)
scan_aliases(k, lower_text, normalized_features) ==
  IF k > Len(ALIAS_MAP) THEN normalized_features
  ELSE LET alias == ALIAS_MAP[k][1]
           normalized == ALIAS_MAP[k][2]
           found == SearchLiteral(alias_pattern(alias), lower_text)
           fresh == \A j \in 1..Len(normalized_features) :
                      normalized_features[j] # normalized
       IN scan_aliases(k + 1, lower_text,
                       IF found /\ fresh
                       THEN Append(normalized_features, normalized)
                       ELSE normalized_features)

call_llm_to_extract_preferences(text) ==
  LET m == number_match(RemoveChar(text, ","))
      budget == IF m # None THEN float_(m[1]) ELSE None
  IN [budget |-> budget,
      features |-> scan_aliases(1, Lower(text), <<>>),
      raw_text |-> text]

\* the preference texts: up to MaxTokens of these pieces, concatenated
TextTokens ==
  {<<"4", "5", "0">>, <<"7", "5">>, <<"1">>, <<"2", "0", "0">>, <<".">>, <<",">>, <<" ">>, <<"\\", ".">>, <<"\\", "b">>,
   <<"w", "i", "n", "d", "s", "c", "r", "e", "e", "n", " ", "c", "o", "v", "e", "r">>,
   <<"L", "E", "G", "A", "L">>}
Texts == {Flatten(ts) : ts \in SeqUpTo(TextTokens, MaxTokens)}

XInit == user_preferences \in Texts /\ extracted = None /\ x_pc = "start"
XIdle == user_preferences = <<>> /\ extracted = None /\ x_pc = "idle"

\* one call of call_llm_to_extract_preferences; it has no raise of its own and
\* catches the ValueError of float()
Extract ==
  /\ x_pc = "start"
  /\ extracted' = Some(call_llm_to_extract_preferences(user_preferences))
  /\ x_pc' = "returned"
  /\ UNCHANGED <<user_preferences, nvars, mvars, rvars, tvars>>

----------------------------------------------------------------------------
(* matches_requirements and find_best_match *)

\* a slip: a price equal to the budget is rejected
matches_requirements_strict(quote, budget, required_features) ==
  IF budget # None /\ quote.price >= budget[1] THEN FALSE
  ELSE IF required_features # <<>>
          /\ \E k \in 1..Len(required_features) :
               \A j \in 1..Len(quote.features) :
                 quote.features[j] # required_features[k]
       THEN FALSE
       ELSE TRUE

matches_requirements(quote, budget, required_features) ==
  IF budget # None /\ quote.price > budget[1] THEN FALSE
  ELSE IF required_features # <<>>
          /\ \E k \in 1..Len(required_features) :
               \A j \in 1..Len(quote.features) :
                 quote.features[j] # required_features[k]
       THEN FALSE
       ELSE TRUE

\* min(candidates, key=lambda q: q.price) from the running minimum best on:
\* a later candidate replaces it only when strictly cheaper
RECURSIVE min_by_price(_, _)
min_by_price(best, rest) ==
  IF rest = <<>> THEN best
  ELSE min_by_price(IF Head(rest).price < best.price THEN Head(rest) ELSE best,
                    Tail(rest))

\* a slip: the last of the cheapest candidates wins
RECURSIVE min_by_price_last(_, _)
min_by_price_last(best, rest) ==
  IF rest = <<>> THEN best
  ELSE min_by_price_last(
         IF Head(rest).price <= best.price THEN Head(rest) ELSE best, Tail(rest))

find_best_match_last(qs, budget, required_features) ==
  LET candidates ==
        SelectSeq(qs, LAMBDA q : matches_requirements(q, budget, required_features))
  IN IF candidates = <<>> THEN None
     ELSE Some(min_by_price_last(Head(candidates), Tail(candidates)))

find_best_match(qs, budget, required_features) ==
  LET candidates ==
        SelectSeq(qs, LAMBDA q : matches_requirements(q, budget, required_features))
  IN IF candidates = <<>> THEN None
     ELSE Some(min_by_price(Head(candidates), Tail(candidates)))

\* the insurer of the k-th quote of a list: distinct names, so that a quote of
\* the list is known by its position as a Python object is by its identity
InsurerNames == <<"A", "B", "C", "D", "E", "F">>

MatchFeatureLists ==
  {<<>>, <<legal_cover>>, <<legal_cover, breakdown_cover>>}
MatchQuoteLists ==
  UNION {{[k \in 1..n |-> [insurer |-> InsurerNames[k], price |-> ps[k],
                           features |-> fs[k]]] :
            ps \in [1..n -> {80, 100}], fs \in [1..n -> MatchFeatureLists]} :
         n \in 0..MaxQuotes}

MInit ==
  /\ m_quotes \in MatchQuoteLists
  /\ m_budget \in {None, Some(80), Some(90)}
  /\ m_required \in {<<>>, <<legal_cover>>, <<breakdown_cover, legal_cover>>}
  /\ m_index = 0
  /\ m_result = None
  /\ m_best = None
  /\ m_pc = "start"
MIdle ==
  /\ m_quotes = <<>>
  /\ m_budget = None
  /\ m_required = <<>>
  /\ m_index = 0
  /\ m_result = None
  /\ m_best = None
  /\ m_pc = "idle"

\* matches_requirements(m_quotes[k], m_budget, m_required)
CallMatches ==
  /\ m_pc = "start"
  /\ \E k \in 1..Len(m_quotes) :
       /\ m_index' = k
       /\ m_result' = Some(matches_requirements(m_quotes[k], m_budget, m_required))
  /\ m_pc' = "matched"
  /\ UNCHANGED <<m_quotes, m_budget, m_required, m_best, nvars, xvars, rvars, tvars>>

\* find_best_match(m_quotes, m_budget, m_required); the result is wrapped once
\* more, so that a returned None differs from no call yet
CallFindBestMatch ==
  /\ m_pc = "start"
  /\ m_best' = Some(find_best_match(m_quotes, m_budget, m_required))
  /\ m_pc' = "best"
  /\ UNCHANGED <<m_quotes, m_budget, m_required, m_index, m_result,
                 nvars, xvars, rvars, tvars>>

----------------------------------------------------------------------------
(* datetime.date: parse_date and the addition of a timedelta *)

IsLeap(y) == y % 4 = 0 /\ (y % 100 # 0 \/ y % 400 = 0)
DaysInMonthTable == <<31, 28, 31, 30, 31, 30, 31, 31, 30, 31, 30, 31>>
DaysInMonth(y, m) == IF m = 2 /\ IsLeap(y) THEN 29 ELSE DaysInMonthTable[m]

RECURSIVE DaysBeforeMonth(_, _)
DaysBeforeMonth(y, m) ==
  IF m = 1 THEN 0 ELSE DaysBeforeMonth(y, m - 1) + DaysInMonth(y, m - 1)

DaysBeforeYear(y) ==
  (y - 1) * 365 + ((y - 1) \div 4) - ((y - 1) \div 100) + ((y - 1) \div 400)

\* date.toordinal(): 0001-01-01 is day 1
toordinal(d) == DaysBeforeYear(d.year) + DaysBeforeMonth(d.year, d.month) + d.day

\* date.max.toordinal(): the ordinal of 9999-12-31
MAXORDINAL == 3652059

\* date.fromordinal(n), as datetime computes it from the 400-, 100- and
\* 4-year cycles, for 1 <= n <= MAXORDINAL
ord2ymd(n) ==
  LET n0 == n - 1
      n400 == n0 \div 146097
      r400 == n0 % 146097
      n100 == r400 \div 36524
      r100 == r400 % 36524
      n4 == r100 \div 1461
      r4 == r100 % 1461
      n1 == r4 \div 365
      r1 == r4 % 365
      y == n400 * 400 + 1 + n100 * 100 + n4 * 4 + n1
  IN IF n1 = 4 \/ n100 = 4 THEN [year |-> y - 1, month |-> 12, day |-> 31]
     ELSE LET m == CHOOSE k \in 1..12 :
                     /\ DaysBeforeMonth(y, k) <= r1
                     /\ r1 < DaysBeforeMonth(y, k) + DaysInMonth(y, k)
          IN [year |-> y, month |-> m, day |-> r1 - DaysBeforeMonth(y, m) + 1]

\* date.fromordinal(n); None stands for the ValueError of an ordinal that is
\* no date
fromordinal(n) == IF n >= 1 /\ n <= MAXORDINAL THEN Some(ord2ymd(n)) ELSE None

\* date + datetime.timedelta(days=n); None stands for the OverflowError of a
\* result before 0001-01-01 or after 9999-12-31
date_add(d, n) ==
  LET o == toordinal(d) + n
  IN IF o >= 1 /\ o <= MAXORDINAL THEN Some(ord2ymd(o)) ELSE None

\* datetime.strptime(s, "%Y-%m-%d").date(): four digits, a dash, a month
\* (1[0-2], 0[1-9] or [1-9]), a dash, a day (3[0-1], [1-2][0-9], 0[1-9],
\* [1-9], or a blank and [1-9]) and nothing more; then the date must exist.
\* None stands for the ValueError of a string that is no date
parse_date(s) ==
  LET e1 == DigitRunEnd(s, 6)
      rest == SubSeq(s, e1 + 2, Len(s))
      blank_day == Len(rest) = 2 /\ rest[1] = " " /\ IsDigit(rest[2])
      digit_day == Len(rest) \in {1, 2} /\ AllDigits(rest)
      shape == /\ Len(s) >= 8
               /\ AllDigits(SubSeq(s, 1, 4))
               /\ s[5] = "-"
               /\ e1 \in {6, 7}
               /\ s[e1 + 1] = "-"
               /\ blank_day \/ digit_day
  IN IF ~shape THEN None
     ELSE LET y == ToNat(SubSeq(s, 1, 4))
              m == ToNat(SubSeq(s, 6, e1))
              d == ToNat(IF blank_day THEN Tail(rest) ELSE rest)
          IN IF y >= 1 /\ m \in 1..12 /\ d >= 1 /\ d <= DaysInMonth(y, m)
             THEN Some([year |-> y, month |-> m, day |-> d])
             ELSE None

----------------------------------------------------------------------------
(* fetch_quotes: the mapping of the API response to Quote objects *)

\* a or b, for an Optional number: 0 and None are falsy
OrNumber(a, b) == IF a # None /\ a[1] # 0 THEN a ELSE b
\* a or b, for an Optional string: "" and None are falsy
OrString(a, b) == IF a # None /\ a[1] # "" THEN a ELSE b

\* the body of the loop over quotes_with_insights for one raw record q: its
\* Quote, or None when the record has no price (continue)
map_quote(q) ==
  LET insurer == OrString(q.insurer_name,
                          IF q.original_insurer_name # None
                          THEN q.original_insurer_name ELSE Some("Unknown"))
      price == OrNumber(q.quote_price, q.policy_cost)
      normalized == [k \in 1..Len(q.available_features) |->
                       normalize_feature_name(q.available_features[k])]
  IN IF price = None THEN None
     ELSE Some([insurer |-> insurer[1], price |-> price[1],
                features |-> normalized])

\* the list of Quote objects fetch_quotes returns for the records quotes_raw
RECURSIVE map_quotes(_)
map_quotes(quotes_raw) ==
  IF quotes_raw = <<>> THEN <<>>
  ELSE map_quote(Head(quotes_raw)) \o map_quotes(Tail(quotes_raw))

\* raw records an API response may hold
RawPool ==
  {[insurer_name |-> Some("A"), original_insurer_name |-> None,
    quote_price |-> Some(400), policy_cost |-> None,
    available_features |-> <<<<"L", "e", "g", "a", "l", "_", "C", "o", "v", "e", "r", "_", "I", "n", "c", "l", "u", "d", "e", "d">>,
                             <<" ", "c", "o", "u", "r", "t", "e", "s", "y", "_", "c", "a", "r", " ">>>>],
   [insurer_name |-> Some("B"), original_insurer_name |-> Some("B2"),
    quote_price |-> Some(450), policy_cost |-> Some(470),
    available_features |-> <<<<"w", "i", "n", "d", "s", "c", "r", "e", "e", "n", "_", "c", "o", "v", "e", "r">>,
                             legal_cover>>],
   [insurer_name |-> None, original_insurer_name |-> None,
    quote_price |-> Some(0), policy_cost |-> Some(500),
    available_features |-> <<<<"l", "e", "g", "a", "l", "_", "c", "o", "v", "e", "r", "_", "i", "n", "c", "l", "u", "d", "e", "d", "_", "i", "n", "c", "l", "u", "d", "e", "d">>>>],
   [insurer_name |-> Some("D"), original_insurer_name |-> None,
    quote_price |-> None, policy_cost |-> None,
    available_features |-> <<legal_cover>>]}
Responses == SeqUpTo(RawPool, MaxRaw)
\* the quote lists fetch_quotes can return: one per response
FetchResults == {map_quotes(quotes_raw) : quotes_raw \in Responses}

----------------------------------------------------------------------------
(* run_schedule *)

interval_days == 7

RunTexts ==
  {<<>>, <<"4", "5", "0">>, <<"\\", "b", "L", "e", "g", "a", "l", "\\", "b">>,
   <<"4", "5", "0", " ", "\\", "b", "l", "e", "g", "a", "l", "\\", "b", " ", "\\", "b", "w", "i", "n", "d", "s", "c", "r", "e", "e", "n", " ", "c", "o", "v", "e", "r", "\\", "b">>}
DateStrings ==
  {<<"2", "0", "2", "5", "-", "1", "1", "-", "2", "3">>,
   <<"2", "0", "2", "4", "-", "0", "2", "-", "2", "2">>,
   <<"2", "0", "2", "5", "-", "1", "2", "-", "2", "7">>,
   <<"2", "0", "2", "5", "-", "1", "-", " ", "5">>,
   <<"9", "9", "9", "9", "-", "1", "2", "-", "2", "8">>,
   <<"2", "0", "2", "5", "-", "1", "3", "-", "0", "1">>,
   <<"2", "0", "2", "5", "-", "0", "2", "-", "3", "0">>,
   <<"2", "3", "/", "1", "1", "/", "2", "0", "2", "5">>}
Requests ==
  [user_preferences : RunTexts, iterations : (-1)..MaxIterations,
   start_date : DateStrings]

RInit ==
  /\ request \in Requests
  /\ prefs = None
  /\ start_date = None
  /\ i = 0
  /\ run_date = None
  /\ quotes = <<>>
  /\ outcomes = <<>>
  /\ fetches = 0
  /\ fetch_status = "none"
  /\ raised = None
  /\ pc = "start"
RIdle ==
  /\ request = None
  /\ prefs = None
  /\ start_date = None
  /\ i = 0
  /\ run_date = None
  /\ quotes = <<>>
  /\ outcomes = <<>>
  /\ fetches = 0
  /\ fetch_status = "none"
  /\ raised = None
  /\ pc = "idle"

\* lines 183-194, with a start date that parses: the preferences are
\* extracted and the loop is entered
Configure ==
  /\ pc = "start"
  /\ parse_date(request.start_date) # None
  /\ prefs' = Some(call_llm_to_extract_preferences(request.user_preferences))
  /\ start_date' = parse_date(request.start_date)
  /\ pc' = "loop"
  /\ UNCHANGED <<request, i, run_date, quotes, outcomes, fetches, fetch_status,
                 raised, nvars, xvars, mvars, tvars>>

\* lines 183-193, with a start date strptime rejects: the preferences are
\* extracted, then parse_date raises ValueError out of run_schedule
ConfigureRaises ==
  /\ pc = "start"
  /\ parse_date(request.start_date) = None
  /\ prefs' = Some(call_llm_to_extract_preferences(request.user_preferences))
  /\ raised' = Some("ValueError")
  /\ pc' = "raised"
  /\ UNCHANGED <<request, start_date, i, run_date, quotes, outcomes, fetches,
                 fetch_status, nvars, xvars, mvars, tvars>>

\* for i in range(iterations): the next i exists; run_date is computed and
\* fetch_quotes is about to be called
LoopEnter ==
  /\ pc = "loop"
  /\ i \in Range(0, request.iterations)
  /\ date_add(start_date[1], i * interval_days) # None
  /\ run_date' = date_add(start_date[1], i * interval_days)
  /\ pc' = "fetch"
  /\ UNCHANGED <<request, prefs, start_date, i, quotes, outcomes, fetches,
                 fetch_status, raised, nvars, xvars, mvars, tvars>>

\* for i in range(iterations): the next i exists, but its date is after
\* 9999-12-31: line 197 raises OverflowError out of run_schedule
LoopEnterRaises ==
  /\ pc = "loop"
  /\ i \in Range(0, request.iterations)
  /\ date_add(start_date[1], i * interval_days) = None
  /\ raised' = Some("OverflowError")
  /\ pc' = "raised"
  /\ UNCHANGED <<request, prefs, start_date, i, run_date, quotes, outcomes,
                 fetches, fetch_status, nvars, xvars, mvars, tvars>>

\* for i in range(iterations): the range is exhausted (at once when
\* iterations <= 0) and run_schedule returns
LoopExit ==
  /\ pc = "loop"
  /\ i \notin Range(0, request.iterations)
  /\ pc' = "returned"
  /\ UNCHANGED <<request, prefs, start_date, i, run_date, quotes, outcomes,
                 fetches, fetch_status, raised, nvars, xvars, mvars, tvars>>

\* fetch_quotes returns: the response's records mapped to Quote objects
FetchReturns ==
  /\ pc = "fetch"
  /\ \E result \in FetchResults : quotes' = result
  /\ fetches' = fetches + 1
  /\ fetch_status' = "ok"
  /\ pc' = "match"
  /\ UNCHANGED <<request, prefs, start_date, i, run_date, outcomes, raised,
                 nvars, xvars, mvars, tvars>>

\* a slip: the failure is swallowed and an empty quote list is returned
FetchRaisesSwallowed ==
  /\ pc = "fetch"
  /\ quotes' = <<>>
  /\ fetches' = fetches + 1
  /\ fetch_status' = "failed"
  /\ pc' = "match"
  /\ UNCHANGED <<request, prefs, start_date, i, run_date, outcomes, raised,
                 nvars, xvars, mvars, tvars>>

\* The errors of lines 122-151, each named by a class it is an instance of.
\* "HTTPError" is httpx.HTTPError with its subclasses (raise_for_status, the
\* transport of client.post).  The others are not httpx.HTTPError: a body
\* that is no JSON (JSONDecodeError), that is no UTF-8 (UnicodeDecodeError)
\* or that nests too deep (RecursionError); a body that is no object, or a
\* record or member that is none (AttributeError); a quotes_with_insights,
\* a feature list or a price of the wrong type (TypeError); a price that
\* float() cannot read (ValueError) or that is an integer beyond the floats
\* (OverflowError); a URL in ALFIE_API_URL that httpx cannot read
\* (InvalidURL); a certificate file or a module that the client does not
\* find (FileNotFoundError, ImportError).  "BaseException" is an error of
\* any other class: the list is not closed, since the calls of fetch_quotes
\* may raise whatever their libraries raise
FetchErrors ==
  {"HTTPError", "JSONDecodeError", "UnicodeDecodeError", "RecursionError",
   "AttributeError", "TypeError", "ValueError", "OverflowError",
   "InvalidURL", "FileNotFoundError", "ImportError", "BaseException"}

\* lines 134-135: except httpx.HTTPError as exc: raise RuntimeError(...) from
\* exc; an error of any other class is not caught and leaves as it is
reraise(exc) == IF exc = "HTTPError" THEN "RuntimeError" ELSE exc

\* fetch_quotes raises, and run_schedule (line 198) has no handler: the
\* error leaves run_schedule with the run where it stands
FetchRaises ==
  /\ pc = "fetch"
  /\ \E exc \in FetchErrors : raised' = Some(reraise(exc))
  /\ fetches' = fetches + 1
  /\ fetch_status' = "failed"
  /\ pc' = "raised"
  /\ UNCHANGED <<request, prefs, start_date, i, run_date, quotes, outcomes,
                 nvars, xvars, mvars, tvars>>

\* the message of the line printed for a date
outcome_message(match, budget, required_features) ==
  IF match # None
  THEN [found |-> TRUE, insurer |-> match[1].insurer, price |-> match[1].price,
        budget |-> budget, reason |-> <<>>]
  ELSE LET reason ==
             (IF budget # None THEN <<"no quote within budget">> ELSE <<>>)
             \o (IF required_features # <<>>
                 THEN <<"missing required features">> ELSE <<>>)
       IN [found |-> FALSE, insurer |-> "", price |-> 0, budget |-> budget,
           reason |-> IF reason # <<>> THEN reason
                      ELSE <<"no quotes available">>]

\* lines 199-216: the best match is chosen and the line for run_date is
\* printed; then the loop goes on
Evaluate ==
  /\ pc = "match"
  /\ LET match == find_best_match(quotes, prefs[1].budget, prefs[1].features)
     IN outcomes' =
          Append(outcomes,
                 [date |-> run_date[1], match_found |-> match # None,
                  message |-> outcome_message(match, prefs[1].budget,
                                              prefs[1].features)])
  /\ i' = i + 1
  /\ pc' = "loop"
  /\ UNCHANGED <<request, prefs, start_date, run_date, quotes, fetches,
                 fetch_status, raised, nvars, xvars, mvars, tvars>>

----------------------------------------------------------------------------
(* get_top_3_quotes *)

\* key=lambda q: q.get("alfie_touch_score", 0)
score_key(q) == IF q.alfie_touch_score = None THEN 0 ELSE q.alfie_touch_score[1]

\* sorted(quotes, key=score_key, reverse=True): a stable sort, so a record
\* goes behind every record placed before it whose key is not smaller (acc
\* is in descending order of key: those records are its first ones)
RECURSIVE sorted_desc(_, _)
sorted_desc(acc, rest) ==
  IF rest = <<>> THEN acc
  ELSE LET x == Head(rest)
           at == Cardinality({k \in 1..Len(acc) : score_key(acc[k]) >= score_key(x)})
       IN sorted_desc(SubSeq(acc, 1, at) \o <<x>> \o SubSeq(acc, at + 1, Len(acc)),
                      Tail(rest))

\* a slip: sorted ascending and then reversed, which reverses the ties
RECURSIVE sorted_desc_reversed(_, _)
sorted_desc_reversed(acc, rest) ==
  IF rest = <<>> THEN acc
  ELSE LET x == Head(rest)
           at == Cardinality({k \in 1..Len(acc) : score_key(acc[k]) > score_key(x)})
       IN sorted_desc_reversed(
            SubSeq(acc, 1, at) \o <<x>> \o SubSeq(acc, at + 1, Len(acc)),
            Tail(rest))

\* the entry built for one record of top_3
top_entry(q) ==
  [insurer_name |-> q.insurer_name,
   alfie_touch_score |-> q.alfie_touch_score,
   trustpilot_rating |->
     IF q.trust_pilot_context = None THEN None
     ELSE q.trust_pilot_context[1].rating,
   alfie_message |-> q.alfie_message,
   features |->
     [features_matched |->
        IF q.features_matching_requirements = None THEN <<>>
        ELSE q.features_matching_requirements[1].matched_required,
      features_missing |->
        IF q.features_matching_requirements = None THEN <<>>
        ELSE q.features_matching_requirements[1].missing_required,
      available_features |->
        IF q.available_features = None THEN <<>> ELSE q.available_features[1]]]

get_top_3_quotes_reversed(d) ==
  LET qs == IF d.quotes_with_insights = None THEN <<>>
            ELSE d.quotes_with_insights[1]
      quotes_sorted == sorted_desc_reversed(<<>>, qs)
      top_3 == SubSeq(quotes_sorted, 1,
                      IF Len(quotes_sorted) < 3 THEN Len(quotes_sorted) ELSE 3)
  IN [top_3_quotes |-> [k \in 1..Len(top_3) |-> top_entry(top_3[k])]]

get_top_3_quotes(d) ==
  LET qs == IF d.quotes_with_insights = None THEN <<>>
            ELSE d.quotes_with_insights[1]
      quotes_sorted == sorted_desc(<<>>, qs)
      top_3 == SubSeq(quotes_sorted, 1,
                      IF Len(quotes_sorted) < 3 THEN Len(quotes_sorted) ELSE 3)
  IN [top_3_quotes |-> [k \in 1..Len(top_3) |-> top_entry(top_3[k])]]

\* the k-th record of a batch: records at even positions carry none of the
\* optional keys
ScoredRecord(k, score) ==
  IF k % 2 = 1
  THEN [insurer_name |-> InsurerNames[k], alfie_touch_score |-> score,
        trust_pilot_context |-> Some([rating |-> Some(4)]),
        alfie_message |-> Some("ok"),
        features_matching_requirements |->
          Some([matched_required |-> <<legal_cover>>,
                missing_required |-> <<courtesy_car>>]),
        available_features |-> Some(<<legal_cover>>)]
  ELSE [insurer_name |-> InsurerNames[k], alfie_touch_score |-> score,
        trust_pilot_context |-> None, alfie_message |-> None,
        features_matching_requirements |-> None, available_features |-> None]

ScoreValues == {None, Some(3), Some(5), Some(9), Some(0 - 2)}
Batches ==
  {[quotes_with_insights |-> None]} \cup
  UNION {{[quotes_with_insights |-> Some([k \in 1..n |-> ScoredRecord(k, ss[k])])] :
            ss \in [1..n -> ScoreValues]} : n \in 0..MaxRecords}

TInit == data \in Batches /\ output = None /\ t_pc = "start"
TIdle == data = None /\ output = None /\ t_pc = "idle"

\* one call of get_top_3_quotes(data); sorted() builds a new list, data is
\* not written
GetTop3 ==
  /\ t_pc = "start"
  /\ output' = Some(get_top_3_quotes(data))
  /\ t_pc' = "returned"
  /\ UNCHANGED <<data, nvars, xvars, mvars, rvars>>

----------------------------------------------------------------------------
(* Specifications *)

\* run_schedule on one request
Init == RInit /\ NIdle /\ XIdle /\ MIdle /\ TIdle
Next ==
  \/ Configure
  \/ ConfigureRaises
  \/ LoopEnter
  \/ LoopEnterRaises
  \/ LoopExit
  \/ FetchReturns
  \/ FetchRaises
  \/ Evaluate
Spec == Init /\ [][Next]_vars

\* normalize_feature_name, applied twice
InitNormalize == NInit /\ XIdle /\ MIdle /\ RIdle /\ TIdle
NextNormalize == NormalizeOnce \/ NormalizeTwice
SpecNormalize == InitNormalize /\ [][NextNormalize]_vars

\* call_llm_to_extract_preferences on one text
InitExtract == XInit /\ NIdle /\ MIdle /\ RIdle /\ TIdle
NextExtract == Extract
SpecExtract == InitExtract /\ [][NextExtract]_vars

\* matches_requirements and find_best_match on one quote list
InitMatch == MInit /\ NIdle /\ XIdle /\ RIdle /\ TIdle
NextMatch == CallMatches \/ CallFindBestMatch
SpecMatch == InitMatch /\ [][NextMatch]_vars

\* get_top_3_quotes on one batch
InitTop == TInit /\ NIdle /\ XIdle /\ MIdle /\ RIdle
NextTop == GetTop3
SpecTop == InitTop /\ [][NextTop]_vars

----------------------------------------------------------------------------
(* Properties *)

\* \w of a regular expression: a letter, a digit or the underscore
IsWordChar(c) ==
  \/ IsDigit(c)
  \/ c = "_"
  \/ \E k \in 1..Len(UpperCase) : c = UpperCase[k] \/ c = LowerCase[k]
  \/ c \in {"ª", "²", "³", "µ", "¹", "º", "¼", "½", "¾", "ß", "ÿ"}
IsWordAt(s, k) == k \in 1..Len(s) /\ IsWordChar(s[k])
\* the \b of a regular expression, between s[p - 1] and s[p]
WordBoundary(s, p) == IsWordAt(s, p - 1) # IsWordAt(s, p)
\* lit occurs in s as a whole word or phrase
ContainsWholeWord(s, lit) ==
  \E p \in 1..Len(s) :
    MatchesAt(s, lit, p) /\ WordBoundary(s, p) /\ WordBoundary(s, p + Len(lit))
Count(s, x) == Cardinality({k \in 1..Len(s) : s[k] = x})
Elements(s) == {s[k] : k \in 1..Len(s)}

\* C1: a text that contains a phrase of the alias table as a whole word, in
\* any letter case and however often, yields a feature list that holds the
\* canonical identifier of that alias exactly once.
C1_AliasYieldsCanonicalOnce ==
  x_pc = "returned" =>
    \A k \in 1..Len(ALIAS_MAP) :
      ContainsWholeWord(Lower(user_preferences), ALIAS_MAP[k][1])
        => Count(extracted[1].features, ALIAS_MAP[k][2]) = 1

\* C2: matches_requirements is true exactly when the budget is absent or the
\* price is at most the budget, and every required feature is among the
\* quote's features.
C2_MatchesRequirements ==
  m_pc = "matched" =>
    LET q == m_quotes[m_index]
    IN m_result[1] =
         (/\ m_budget = None \/ q.price <= m_budget[1]
          /\ \A k \in 1..Len(m_required) : m_required[k] \in Elements(q.features))

\* a price equal to the budget, with a feature beyond the required ones, passes
C2_Witness ==
  /\ m_pc = "matched"
  /\ m_budget # None
  /\ m_quotes[m_index].price = m_budget[1]
  /\ m_required # <<>>
  /\ Elements(m_quotes[m_index].features) \ Elements(m_required) # {}
  /\ m_result = Some(TRUE)

\* the positions of the quotes that pass matches_requirements
Passing == {k \in 1..Len(m_quotes) :
              matches_requirements(m_quotes[k], m_budget, m_required)}

\* C3: find_best_match returns None exactly when no quote passes; otherwise
\* it returns a passing quote of minimal price, the first such in input order.
C3_FindBestMatch ==
  m_pc = "best" =>
    /\ (m_best[1] = None) <=> (Passing = {})
    /\ Passing # {} =>
         \E k \in Passing :
           /\ m_best[1] = Some(m_quotes[k])
           /\ \A j \in Passing :
                /\ m_quotes[k].price <= m_quotes[j].price
                /\ m_quotes[j].price = m_quotes[k].price => k <= j

\* the second quote is returned: a later one passes at the same price, and
\* the first one is cheaper but does not pass
C3_Witness ==
  /\ m_pc = "best"
  /\ Len(m_quotes) = 3
  /\ m_best[1] = Some(m_quotes[2])
  /\ Passing = {2, 3}
  /\ m_quotes[3].price = m_quotes[2].price
  /\ m_quotes[1].price < m_quotes[2].price

\* C4: normalize_feature_name is idempotent.
C4_NormalizeIdempotent == n_pc = "twice" => f_twice = f_once

\* the day after d
NextDay(d) ==
  IF d.day < DaysInMonth(d.year, d.month) THEN [d EXCEPT !.day = d.day + 1]
  ELSE IF d.month < 12 THEN [d EXCEPT !.month = d.month + 1, !.day = 1]
  ELSE [year |-> d.year + 1, month |-> 1, day |-> 1]
RECURSIVE DaysLater(_, _)
DaysLater(d, n) == IF n = 0 THEN d ELSE DaysLater(NextDay(d), n - 1)
DateBefore(a, b) ==
  \/ a.year < b.year
  \/ a.year = b.year /\ a.month < b.month
  \/ a.year = b.year /\ a.month = b.month /\ a.day < b.day

\* C5: the k-th outcome is dated 7 * (k - 1) days after the start date, the
\* dates ascend strictly, a fetch starts only when the outcomes of all
\* earlier dates are out, and a run of N >= 1 iterations none of whose
\* fetches fails comes to its end with N outcomes and N fetches (start
\* 2025-11-23, N = 3: 2025-11-23, 2025-11-30, 2025-12-07).
C5_WeeklyOutcomesInOrder ==
  /\ \A k \in 1..Len(outcomes) :
       outcomes[k].date = DaysLater(start_date[1], 7 * (k - 1))
  /\ \A k \in 1..(Len(outcomes) - 1) :
       DateBefore(outcomes[k].date, outcomes[k + 1].date)
  /\ pc = "fetch" => fetches = Len(outcomes)
  /\ pc = "match" => fetches = Len(outcomes) + 1
  /\ (/\ pc \in {"returned", "raised"}
      /\ start_date # None
      /\ fetch_status # "failed"
      /\ request.iterations >= 1) =>
       /\ pc = "returned"
       /\ Len(outcomes) = request.iterations
       /\ fetches = request.iterations
       /\ (request.iterations = 3 /\ start_date[1] = [year |-> 2025, month |-> 11, day |-> 23])
            => [k \in 1..3 |-> outcomes[k].date]
                 = <<[year |-> 2025, month |-> 11, day |-> 23],
                     [year |-> 2025, month |-> 11, day |-> 30],
                     [year |-> 2025, month |-> 12, day |-> 7]>>

\* C6: when the fetch for a date fails, the failure leaves run_schedule as
\* an error and no outcome, matched or not, is emitted for that date.
C6_FailedFetchNeverReported ==
  fetch_status = "failed" =>
    /\ pc = "raised"
    /\ raised # None
    /\ Len(outcomes) = fetches - 1
    /\ \A k \in 1..Len(outcomes) : outcomes[k].date # run_date[1]

\* the fetch for the second date has failed with the RuntimeError
C6_Witness ==
  /\ fetch_status = "failed"
  /\ raised = Some("RuntimeError")
  /\ Len(outcomes) = 1
  /\ DateBefore(outcomes[1].date, run_date[1])

\* C7: a malformed start date or a non-positive iteration count is reported
\* as an error before any scheduling: no fetch, no outcome, and the run does
\* not end normally.
C7_InvalidRequestIsConfigurationError ==
  (parse_date(request.start_date) = None \/ request.iterations <= 0) =>
    /\ fetches = 0
    /\ outcomes = <<>>
    /\ pc # "returned"

\* the first decimal or integer token of s, as [whole, frac] digit strings
FirstNumericToken(s) ==
  LET starts == {p \in 1..Len(s) : IsDigit(s[p])}
  IN IF starts = {} THEN None
     ELSE LET p == CHOOSE q \in starts : \A r \in starts : q <= r
              e == DigitRunEnd(s, p)
              dec == e + 2 <= Len(s) /\ s[e + 1] = "." /\ IsDigit(s[e + 2])
          IN Some([whole |-> SubSeq(s, p, e),
                   frac |-> IF dec THEN SubSeq(s, e + 2, DigitRunEnd(s, e + 2))
                            ELSE <<>>])

\* C8: the budget is the value of the first decimal or integer token of the
\* text with its commas removed, and None when the text has no digit.
C8_BudgetIsFirstNumber ==
  x_pc = "returned" =>
    LET tok == FirstNumericToken(RemoveChar(user_preferences, ","))
        budget == extracted[1].budget
    IN IF tok = None THEN budget = None
       ELSE /\ budget # None
            /\ budget[1] = ToNat(tok[1].whole)
            /\ \A k \in 1..Len(tok[1].frac) : tok[1].frac[k] = "0"

\* the list under quotes_with_insights
Records(d) ==
  IF d.quotes_with_insights = None THEN <<>> ELSE d.quotes_with_insights[1]
\* the place of the p-th record in descending order of score, equal scores
\* in input order
Rank(qs, p) ==
  1 + Cardinality({j \in 1..Len(qs) :
                     \/ score_key(qs[j]) > score_key(qs[p])
                     \/ score_key(qs[j]) = score_key(qs[p]) /\ j < p})

\* C9: get_top_3_quotes returns min(3, n) entries, the first of the input in
\* descending order of score with equal scores in input order (scores
\* 5, 9, 9, 3: the second, the third, then the first record), and leaves
\* the input as it was.
C9_TopThreeStable ==
  [][(t_pc = "start" /\ t_pc' = "returned") =>
       LET qs == Records(data)
           out == output'[1].top_3_quotes
       IN /\ data' = data
          /\ Len(out) = IF Len(qs) < 3 THEN Len(qs) ELSE 3
          /\ \A p \in 1..Len(qs) :
               Rank(qs, p) <= 3 =>
                 /\ out[Rank(qs, p)].insurer_name = qs[p].insurer_name
                 /\ out[Rank(qs, p)].alfie_touch_score = qs[p].alfie_touch_score
          /\ [p \in 1..Len(qs) |-> qs[p].alfie_touch_score]
               = <<Some(5), Some(9), Some(9), Some(3)>>
             => [k \in 1..Len(out) |-> out[k].insurer_name]
                  = <<InsurerNames[2], InsurerNames[3], InsurerNames[1]>>]_vars

\* the batch with scores 5, 9, 9, 3 has been ranked
C9_Witness ==
  /\ t_pc = "returned"
  /\ [p \in 1..Len(Records(data)) |-> Records(data)[p].alfie_touch_score]
       = <<Some(5), Some(9), Some(9), Some(3)>>
  /\ Len(output[1].top_3_quotes) = 3
  /\ output[1].top_3_quotes[1].insurer_name = InsurerNames[2]

\* a feature string that is a raw alias of ALIAS_MAP and no canonical
\* identifier, or that still ends in _included
RawVariant(f) ==
  \/ f \notin CanonicalFeatures /\ \E k \in 1..Len(ALIAS_MAP) : ALIAS_MAP[k][1] = f
  \/ EndsWith(f, INCLUDED)

\* C10: no raw alias and no _included variant reaches the matcher, neither
\* among the quotes' features nor among the required features.
C10_OnlyCanonicalFeaturesReachMatcher ==
  pc = "match" =>
    /\ \A k \in 1..Len(quotes) : \A f \in Elements(quotes[k].features) : ~RawVariant(f)
    /\ \A f \in Elements(prefs[1].features) : ~RawVariant(f)

====
